---- MODULE Spec2Model ----
(***************************************************************************)
(* FileKeeper: a file server (src/server.py) speaking a text protocol over *)
(* TCP and its client (src/client.py).                                     *)
(*                                                                         *)
(* Text is a sequence of one-character strings, file content a sequence    *)
(* of byte values 0..255.  Parsing (strip, split, upper), the base64       *)
(* codec, path joining and path resolution are computed character by       *)
(* character as the Python library and the kernel compute them.            *)
(***************************************************************************)
EXTENDS Integers, Sequences, FiniteSets, TLC

(***************************************************************************)
(* Text helpers                                                            *)
(***************************************************************************)
\* the absent value of an optional text (Python None); no text equals it
None == <<"None">>

\* the errno of a call that succeeded
NoError == "none"

\* a byte that is not valid UTF-8 (bytes.decode() raises on it)
BadByte == "\\xff"

Whitespace == {" ", "\n", "\t", "\r"}

LowerCase == <<"a", "b", "c", "d", "e", "f", "g", "h", "i", "j", "k", "l", "m", "n", "o", "p", "q", "r", "s", "t", "u", "v", "w", "x", "y", "z">>

UpperCase == <<"A", "B", "C", "D", "E", "F", "G", "H", "I", "J", "K", "L", "M", "N", "O", "P", "Q", "R", "S", "T", "U", "V", "W", "X", "Y", "Z">>

Digits == <<"0", "1", "2", "3", "4", "5", "6", "7", "8", "9">>

\* index of ch in the sequence s, 0 when absent
IndexOf(ch, s) == IF \E i \in 1..Len(s) : s[i] = ch THEN CHOOSE i \in 1..Len(s) : s[i] = ch ELSE 0

\* the upper-case letter of each lower-case letter
ToUpper == [ch \in {LowerCase[i] : i \in 1..Len(LowerCase)} |-> UpperCase[IndexOf(ch, LowerCase)]]

\* str.upper() on one character and on a text
UpperChar(ch) == IF ch \in DOMAIN ToUpper THEN ToUpper[ch] ELSE ch

Upper(t) == [i \in 1..Len(t) |-> UpperChar(t[i])]

\* str.startswith(prefix)
StartsWith(t, prefix) == Len(t) >= Len(prefix) /\ SubSeq(t, 1, Len(prefix)) = prefix

\* t[n:]
DropFirst(t, n) == SubSeq(t, n + 1, Len(t))

RECURSIVE LStrip(_)
\* str.lstrip()
LStrip(t) == IF t # <<>> /\ Head(t) \in Whitespace THEN LStrip(Tail(t)) ELSE t

RECURSIVE RStrip(_)
\* str.rstrip()
RStrip(t) == IF t # <<>> /\ t[Len(t)] \in Whitespace THEN RStrip(SubSeq(t, 1, Len(t) - 1)) ELSE t

\* str.strip()
Strip(t) == RStrip(LStrip(t))

RECURSIVE WordLen(_)
\* length of the leading run of non-whitespace characters
WordLen(t) == IF t = <<>> \/ Head(t) \in Whitespace THEN 0 ELSE 1 + WordLen(Tail(t))

RECURSIVE Split(_, _)
\* str.split(maxsplit=n): words separated by runs of whitespace; after n
\* splits the remainder (leading whitespace removed, trailing whitespace
\* kept) is the last part
Split(t, n) ==
    LET s == LStrip(t)
    IN IF s = <<>> THEN <<>>
       ELSE IF n = 0 THEN <<s>>
       ELSE <<SubSeq(s, 1, WordLen(s))>> \o Split(DropFirst(s, WordLen(s)), n - 1)

RECURSIVE SplitFrom(_, _, _, _)
\* the fields of t[start..] given that t[start..i-1] holds no separator
SplitFrom(t, sep, i, start) ==
    IF i > Len(t) THEN <<SubSeq(t, start, Len(t))>>
    ELSE IF t[i] = sep THEN <<SubSeq(t, start, i - 1)>> \o SplitFrom(t, sep, i + 1, i + 1)
    ELSE SplitFrom(t, sep, i + 1, start)

\* str.split(sep) for a one-character separator: empty fields are kept
SplitOn(t, sep) == SplitFrom(t, sep, 1, 1)

RECURSIVE Concat(_)
\* "".join(parts)
Concat(parts) == IF parts = <<>> THEN <<>> ELSE Head(parts) \o Concat(Tail(parts))

RECURSIVE DecimalOf(_)
\* str(n) for a natural number
DecimalOf(n) == IF n < 10 THEN <<Digits[n + 1]>> ELSE DecimalOf(n \div 10) \o <<Digits[(n % 10) + 1]>>

\* bytes.decode(): fails on a byte sequence that is not valid UTF-8
DecodeOk(data) == \A i \in 1..Len(data) : data[i] # BadByte

(***************************************************************************)
(* Payload codec: base64.b64encode / base64.b64decode (binascii)           *)
(***************************************************************************)
B64Alphabet == <<"A", "B", "C", "D", "E", "F", "G", "H", "I", "J", "K", "L", "M", "N", "O", "P", "Q", "R", "S", "T", "U", "V", "W", "X", "Y", "Z", "a", "b", "c", "d", "e", "f", "g", "h", "i", "j", "k", "l", "m", "n", "o", "p", "q", "r", "s", "t", "u", "v", "w", "x", "y", "z", "0", "1", "2", "3", "4", "5", "6", "7", "8", "9", "+", "/">>

B64Pad == "="

\* the character of a 6-bit value
B64Char(v) == B64Alphabet[v + 1]

\* the 6-bit value of each character of the alphabet
B64Value == [ch \in {B64Alphabet[i] : i \in 1..Len(B64Alphabet)} |-> IndexOf(ch, B64Alphabet) - 1]

\* base64.b64encode(bs).decode(): three bytes become four characters, a
\* final group of one or two bytes is padded with "="
RECURSIVE b64encode(_)
b64encode(bs) ==
    IF Len(bs) = 0 THEN <<>>
    ELSE IF Len(bs) = 1 THEN
        <<B64Char(bs[1] \div 4), B64Char((bs[1] % 4) * 16), B64Pad, B64Pad>>
    ELSE IF Len(bs) = 2 THEN
        <<B64Char(bs[1] \div 4), B64Char((bs[1] % 4) * 16 + bs[2] \div 16),
          B64Char((bs[2] % 16) * 4), B64Pad>>
    ELSE
        <<B64Char(bs[1] \div 4), B64Char((bs[1] % 4) * 16 + bs[2] \div 16),
          B64Char((bs[2] % 16) * 4 + bs[3] \div 64), B64Char(bs[3] % 64)>>
        \o b64encode(SubSeq(bs, 4, Len(bs)))

\* one step of binascii.a2b_base64 in non-strict mode on character ch;
\* st = [quad_pos, leftchar, pads, out, ndata, done]
B64Step(st, ch) ==
    IF st.done THEN st
    ELSE IF ch = B64Pad THEN
        IF st.quad_pos >= 2 /\ st.quad_pos + st.pads + 1 >= 4
        THEN [st EXCEPT !.done = TRUE, !.quad_pos = 0]
        ELSE [st EXCEPT !.pads = IF st.quad_pos >= 2 THEN st.pads + 1 ELSE st.pads]
    ELSE IF ch \notin DOMAIN B64Value THEN st
    ELSE LET v == B64Value[ch]
         IN CASE st.quad_pos = 0 ->
                  [st EXCEPT !.quad_pos = 1, !.leftchar = v, !.pads = 0, !.ndata = st.ndata + 1]
              [] st.quad_pos = 1 ->
                  [st EXCEPT !.quad_pos = 2, !.leftchar = v % 16, !.pads = 0, !.ndata = st.ndata + 1,
                             !.out = Append(st.out, st.leftchar * 4 + v \div 16)]
              [] st.quad_pos = 2 ->
                  [st EXCEPT !.quad_pos = 3, !.leftchar = v % 4, !.pads = 0, !.ndata = st.ndata + 1,
                             !.out = Append(st.out, st.leftchar * 16 + v \div 4)]
              [] st.quad_pos = 3 ->
                  [st EXCEPT !.quad_pos = 0, !.leftchar = 0, !.pads = 0, !.ndata = st.ndata + 1,
                             !.out = Append(st.out, st.leftchar * 64 + v)]

RECURSIVE B64Run(_, _)
B64Run(st, t) == IF t = <<>> THEN st ELSE B64Run(B64Step(st, Head(t)), Tail(t))

ErrIncorrectPadding == <<"I", "n", "c", "o", "r", "r", "e", "c", "t", " ", "p", "a", "d", "d", "i", "n", "g">>

ErrDataCharsA == <<"I", "n", "v", "a", "l", "i", "d", " ", "b", "a", "s", "e", "6", "4", "-", "e", "n", "c", "o", "d", "e", "d", " ", "s", "t", "r", "i", "n", "g", ":", " ", "n", "u", "m", "b", "e", "r", " ", "o", "f", " ", "d", "a", "t", "a", " ", "c", "h", "a", "r", "a", "c", "t", "e", "r", "s", " ", "(">>

ErrDataCharsB == <<")", " ", "c", "a", "n", "n", "o", "t", " ", "b", "e", " ", "1", " ", "m", "o", "r", "e", " ", "t", "h", "a", "n", " ", "a", " ", "m", "u", "l", "t", "i", "p", "l", "e", " ", "o", "f", " ", "4">>

ErrNonAscii == <<"s", "t", "r", "i", "n", "g", " ", "a", "r", "g", "u", "m", "e", "n", "t", " ", "s", "h", "o", "u", "l", "d", " ", "c", "o", "n", "t", "a", "i", "n", " ", "o", "n", "l", "y", " ", "A", "S", "C", "I", "I", " ", "c", "h", "a", "r", "a", "c", "t", "e", "r", "s">>

\* characters outside ASCII that the model's texts may contain
NonAscii == {"\\u00e9"}

\* base64.b64decode(t) for a str t: [ok, bytes] on success, [ok, err] with
\* str(e) of the raised exception on failure
b64decode(t) ==
    IF \E i \in 1..Len(t) : t[i] \in NonAscii THEN [ok |-> FALSE, bytes |-> <<>>, err |-> ErrNonAscii]
    ELSE LET st == B64Run([quad_pos |-> 0, leftchar |-> 0, pads |-> 0, out |-> <<>>,
                           ndata |-> 0, done |-> FALSE], t)
         IN IF st.quad_pos = 0 THEN [ok |-> TRUE, bytes |-> st.out, err |-> <<>>]
            ELSE IF st.quad_pos = 1
                 THEN [ok |-> FALSE, bytes |-> <<>>,
                       err |-> ErrDataCharsA \o DecimalOf(st.ndata) \o ErrDataCharsB]
                 ELSE [ok |-> FALSE, bytes |-> <<>>, err |-> ErrIncorrectPadding]

(***************************************************************************)
(* Protocol texts and the user mapping (src/server.py)                     *)
(***************************************************************************)
alice == <<"a", "l", "i", "c", "e">>

bob == <<"b", "o", "b">>

secret1 == <<"p", "w", "1">>

secret2 == <<"p", "w", "2">>

\* FileServer.users: the mapping _load_users reads from users.json at
\* startup; it is never written afterwards
users == [u \in {alice, bob} |-> IF u = alice THEN secret1 ELSE secret2]

V_AUTH == <<"A", "U", "T", "H">>

V_UPLOAD == <<"U", "P", "L", "O", "A", "D">>

V_DOWNLOAD == <<"D", "O", "W", "N", "L", "O", "A", "D">>

V_DELETE == <<"D", "E", "L", "E", "T", "E">>

V_LIST == <<"L", "I", "S", "T">>

OK_PREFIX == <<"O", "K">>

OK_SP == <<"O", "K", " ">>

R_INVALID_AUTH == <<"E", "R", "R", "O", "R", " ", "I", "n", "v", "a", "l", "i", "d", " ", "a", "u", "t", "h", " ", "c", "o", "m", "m", "a", "n", "d">>

R_AUTHENTICATED == <<"O", "K", " ", "A", "u", "t", "h", "e", "n", "t", "i", "c", "a", "t", "e", "d">>

R_INVALID_PASSWORD == <<"E", "R", "R", "O", "R", " ", "I", "n", "v", "a", "l", "i", "d", " ", "p", "a", "s", "s", "w", "o", "r", "d">>

R_USER_NOT_FOUND == <<"E", "R", "R", "O", "R", " ", "U", "s", "e", "r", " ", "n", "o", "t", " ", "f", "o", "u", "n", "d">>

R_AUTH_REQUIRED == <<"E", "R", "R", "O", "R", " ", "A", "u", "t", "h", "e", "n", "t", "i", "c", "a", "t", "i", "o", "n", " ", "r", "e", "q", "u", "i", "r", "e", "d">>

R_INVALID_UPLOAD == <<"E", "R", "R", "O", "R", " ", "I", "n", "v", "a", "l", "i", "d", " ", "u", "p", "l", "o", "a", "d", " ", "c", "o", "m", "m", "a", "n", "d">>

R_UPLOADED == <<"O", "K", " ", "F", "i", "l", "e", " ", "u", "p", "l", "o", "a", "d", "e", "d">>

R_UPLOAD_FAILED == <<"E", "R", "R", "O", "R", " ", "U", "p", "l", "o", "a", "d", " ", "f", "a", "i", "l", "e", "d", ":", " ">>

R_INVALID_DOWNLOAD == <<"E", "R", "R", "O", "R", " ", "I", "n", "v", "a", "l", "i", "d", " ", "d", "o", "w", "n", "l", "o", "a", "d", " ", "c", "o", "m", "m", "a", "n", "d">>

R_NOT_FOUND == <<"E", "R", "R", "O", "R", " ", "F", "i", "l", "e", " ", "n", "o", "t", " ", "f", "o", "u", "n", "d">>

R_DOWNLOAD_FAILED == <<"E", "R", "R", "O", "R", " ", "D", "o", "w", "n", "l", "o", "a", "d", " ", "f", "a", "i", "l", "e", "d", ":", " ">>

R_INVALID_DELETE == <<"E", "R", "R", "O", "R", " ", "I", "n", "v", "a", "l", "i", "d", " ", "d", "e", "l", "e", "t", "e", " ", "c", "o", "m", "m", "a", "n", "d">>

R_DELETED == <<"O", "K", " ", "F", "i", "l", "e", " ", "d", "e", "l", "e", "t", "e", "d">>

R_DELETE_FAILED == <<"E", "R", "R", "O", "R", " ", "D", "e", "l", "e", "t", "e", " ", "f", "a", "i", "l", "e", "d", ":", " ">>

R_LIST_FAILED == <<"E", "R", "R", "O", "R", " ", "L", "i", "s", "t", " ", "f", "a", "i", "l", "e", "d", ":", " ">>

R_UNKNOWN == <<"E", "R", "R", "O", "R", " ", "U", "n", "k", "n", "o", "w", "n", " ", "c", "o", "m", "m", "a", "n", "d">>

(***************************************************************************)
(* The commands the client builds (src/client.py)                          *)
(***************************************************************************)
Space == <<" ">>

\* FileClient.authenticate: f"AUTH {username} {password}"
AuthCmd(username, password) == V_AUTH \o Space \o username \o Space \o password

\* FileClient.upload_file: f"UPLOAD {filename} {encoded_content}"
UploadCmd(filename, content) == V_UPLOAD \o Space \o filename \o Space \o b64encode(content)

\* FileClient.download_file: f"DOWNLOAD {filename}"
DownloadCmd(filename) == V_DOWNLOAD \o Space \o filename

\* FileClient.delete_file: f"DELETE {filename}"
DeleteCmd(filename) == V_DELETE \o Space \o filename

\* FileClient.list_files: "LIST"
ListCmd == V_LIST

(***************************************************************************)
(* Bounds and inputs                                                       *)
(***************************************************************************)
\* number of connections the server accepts in a run
MaxConns == 2

Conns == 1..MaxConns

eve == <<"e", "v", "e">>

wrongpass == <<"n", "o", "p", "e">>

F_plain == <<"f">>

F_spaced == <<"m", "y", " ", "f">>

F_traversal == <<".", ".", "/", "b", "o", "b", "/", "f">>

\* the credentials a peer tries: both users' own, another user's
\* password, a wrong password and an unknown user
Credentials == {<<alice, secret1>>, <<bob, secret2>>, <<alice, secret2>>, <<bob, wrongpass>>, <<eve, secret1>>}

\* the filenames a peer names: a plain one, one with whitespace in it and
\* one that climbs out of the user's directory
FileNames == {F_plain, F_spaced, F_traversal}

\* the file contents a peer uploads: "hi" and "AB"
B1 == <<104, 105>>

B2 == <<65, 66>>

Contents == {B1, B2}

\* messages that no client method builds: wrong arity, lower-case and
\* unknown verbs, an undecodable payload, whitespace only, invalid UTF-8
Malformed == {
    <<"A", "U", "T", "H", " ", "a", "l", "i", "c", "e">>,
    <<"a", "u", "t", "h", " ", "b", "o", "b", " ", "p", "w", "2">>,
    <<"A", "U", "T", "H", " ", "a", "l", "i", "c", "e", " ", "p", "w", "1", " ", "x">>,
    <<"U", "P", "L", "O", "A", "D", " ", "f">>,
    <<"U", "P", "L", "O", "A", "D", " ", "f", " ", "a", "G", "k">>,
    <<"D", "O", "W", "N", "L", "O", "A", "D">>,
    <<"D", "E", "L", "E", "T", "E", " ", "f", " ", "x">>,
    <<"l", "i", "s", "t">>,
    <<"F", "O", "O">>,
    <<"f", "o", "o", " ", "b", "a", "r", " ", "b", "a", "z", " ", "q", "u", "x">>,
    <<" ", " ", "\n">>,
    <<"L", "I", "S", "T", BadByte>> }

\* the messages of the protocol specification: every verb at every arity
\* on one filename
Messages ==
    {AuthCmd(cr[1], cr[2]) : cr \in Credentials}
    \cup {UploadCmd(F_plain, B1), DownloadCmd(F_plain), DeleteCmd(F_plain), ListCmd}
    \cup Malformed

\* the messages of the storage specification: the commands the client
\* builds for every filename and content, for two users that log in
StorageMessages ==
    {AuthCmd(alice, secret1), AuthCmd(bob, secret2)}
    \cup {UploadCmd(f, b) : f \in FileNames, b \in Contents}
    \cup {DownloadCmd(f) : f \in FileNames}
    \cup {DeleteCmd(f) : f \in FileNames}
    \cup {ListCmd}

AllMessages == Messages \cup StorageMessages

(***************************************************************************)
(* Tables of the parsing results for the texts above.  They hold what the  *)
(* operators compute and only save recomputing it in every step.           *)
(***************************************************************************)
\* handle_client: command = data.decode().strip(),
\* parts = command.split(maxsplit=2), cmd = parts[0].upper()
ParseMessage(data) ==
    LET command == Strip(data)
        parts   == Split(command, 2)
    IN [command |-> command, parts |-> parts, cmd |-> IF parts = <<>> THEN <<>> ELSE Upper(parts[1])]

ParseTable == [m \in AllMessages |-> ParseMessage(m)]

Parsed(data) == IF data \in AllMessages THEN ParseTable[data] ELSE ParseMessage(data)

PayloadTexts == {ParseTable[m].parts[3] : m \in {x \in AllMessages : Len(ParseTable[x].parts) = 3}}

DecodeTable == [t \in PayloadTexts |-> b64decode(t)]

Decoded(t) == IF t \in PayloadTexts THEN DecodeTable[t] ELSE b64decode(t)

(***************************************************************************)
(* Storage backend: the host file system under the server's working        *)
(* directory.  A canonical path is a sequence of component texts from the  *)
(* root; fs = [dirs, files] with files a function from canonical paths to  *)
(* byte sequences.                                                         *)
(***************************************************************************)
Slash == "/"

DotDot == <<".", ".">>

Dot == <<".">>

\* the server process's working directory
Cwd == << <<"s", "r", "v">> >>

\* FileServer.storage_dir (default argument of __init__)
storage_dir == <<"s", "t", "o", "r", "a", "g", "e">>

\* os.path.join(a, b)
PathJoin(a, b) ==
    IF b # <<>> /\ Head(b) = Slash THEN b
    ELSE IF a = <<>> \/ a[Len(a)] = Slash THEN a \o b
    ELSE a \o <<Slash>> \o b

Parent(p) == IF p = <<>> THEN <<>> ELSE SubSeq(p, 1, Len(p) - 1)

IsDir(fs, p) == p \in fs.dirs

IsFile(fs, p) == p \in DOMAIN fs.files

\* the user directories and file paths the model's messages lead to
KnownPaths ==
    {PathJoin(storage_dir, u) : u \in DOMAIN users}
    \cup {PathJoin(PathJoin(storage_dir, u), ParseTable[m].parts[2]) :
            u \in DOMAIN users, m \in {x \in AllMessages : Len(ParseTable[x].parts) >= 2}}

ComponentsTable == [p \in KnownPaths |-> SplitOn(p, Slash)]

\* path.split("/"), from the table for the known paths
Components(path) == IF path \in KnownPaths THEN ComponentsTable[path] ELSE SplitOn(path, Slash)

RECURSIVE DropEmpty(_)
\* the path components between slashes that are not empty
DropEmpty(cs) ==
    IF cs = <<>> THEN <<>>
    ELSE IF Head(cs) = <<>> THEN DropEmpty(Tail(cs))
    ELSE <<Head(cs)>> \o DropEmpty(Tail(cs))

RECURSIVE WalkDirs(_, _, _)
\* follow the components cs from directory cur, each of which must be an
\* existing directory: [err, at]
WalkDirs(fs, cur, cs) ==
    IF cs = <<>> THEN [err |-> NoError, at |-> cur]
    ELSE IF Head(cs) = Dot THEN WalkDirs(fs, cur, Tail(cs))
    ELSE IF Head(cs) = DotDot THEN WalkDirs(fs, Parent(cur), Tail(cs))
    ELSE IF IsDir(fs, Append(cur, Head(cs))) THEN WalkDirs(fs, Append(cur, Head(cs)), Tail(cs))
    ELSE IF IsFile(fs, Append(cur, Head(cs))) THEN [err |-> "ENOTDIR", at |-> cur]
    ELSE [err |-> "ENOENT", at |-> cur]

\* the resolution ends at the last component: it is looked up in the
\* directory the walk w of the others arrived at
ResolveLast(w, name, trailing) ==
    IF w.err # NoError THEN [err |-> w.err, target |-> w.at, dirOnly |-> FALSE]
    ELSE [err |-> NoError, target |-> Append(w.at, name), dirOnly |-> trailing]

\* the resolution of a path that can only name a directory
ResolveDir(w) == [err |-> w.err, target |-> w.at, dirOnly |-> TRUE]

\* the resolution from directory start of the components cs, the non-empty
\* ones of raw
ResolveFrom(fs, start, raw, cs) ==
    IF cs = <<>> \/ cs[Len(cs)] = Dot \/ cs[Len(cs)] = DotDot
    THEN ResolveDir(WalkDirs(fs, start, cs))
    ELSE ResolveLast(WalkDirs(fs, start, SubSeq(cs, 1, Len(cs) - 1)), cs[Len(cs)],
                     raw[Len(raw)] = <<>>)

ResolveRaw(fs, start, raw) == ResolveFrom(fs, start, raw, DropEmpty(raw))

\* kernel path resolution of the text path: [err, target, dirOnly] where
\* target is the canonical path the last component names (it may not
\* exist) and dirOnly says that the path can only name a directory
Resolve(fs, path) ==
    IF path = <<>> THEN [err |-> "ENOENT", target |-> Cwd, dirOnly |-> FALSE]
    ELSE ResolveRaw(fs, IF Head(path) = Slash THEN <<>> ELSE Cwd, Components(path))

\* whether the resolution r names something that exists
Exists(fs, r) ==
    /\ r.err = NoError
    /\ IF r.dirOnly THEN IsDir(fs, r.target) ELSE IsDir(fs, r.target) \/ IsFile(fs, r.target)

\* os.path.exists(path)
path_exists(fs, path) == Exists(fs, Resolve(fs, path))

ErrnoText(e) ==
    CASE e = "ENOENT"  -> <<"[", "E", "r", "r", "n", "o", " ", "2", "]", " ", "N", "o", " ", "s", "u", "c", "h", " ", "f", "i", "l", "e", " ", "o", "r", " ", "d", "i", "r", "e", "c", "t", "o", "r", "y">>
      [] e = "EEXIST"  -> <<"[", "E", "r", "r", "n", "o", " ", "1", "7", "]", " ", "F", "i", "l", "e", " ", "e", "x", "i", "s", "t", "s">>
      [] e = "ENOTDIR" -> <<"[", "E", "r", "r", "n", "o", " ", "2", "0", "]", " ", "N", "o", "t", " ", "a", " ", "d", "i", "r", "e", "c", "t", "o", "r", "y">>
      [] e = "EISDIR"  -> <<"[", "E", "r", "r", "n", "o", " ", "2", "1", "]", " ", "I", "s", " ", "a", " ", "d", "i", "r", "e", "c", "t", "o", "r", "y">>

\* str(e) of the OSError raised for the text path
OSErrorStr(e, path) == ErrnoText(e) \o <<":", " ", "'">> \o path \o <<"'">>

\* mkdir at the resolution r
MkdirAt(fs, r) ==
    IF r.err # NoError THEN [err |-> r.err, fs |-> fs]
    ELSE IF IsDir(fs, r.target) \/ IsFile(fs, r.target) THEN [err |-> "EEXIST", fs |-> fs]
    ELSE [err |-> NoError, fs |-> [fs EXCEPT !.dirs = @ \cup {r.target}]]

\* os.mkdir(path): [err, fs]
os_mkdir(fs, path) == MkdirAt(fs, Resolve(fs, path))

\* open for writing at the resolution r, and the write
WriteAt(fs, r, content) ==
    IF r.err # NoError THEN [err |-> r.err, fs |-> fs]
    ELSE IF IsDir(fs, r.target) THEN [err |-> "EISDIR", fs |-> fs]
    ELSE IF r.dirOnly THEN [err |-> "EISDIR", fs |-> fs]
    ELSE [err |-> NoError,
          fs |-> [fs EXCEPT !.files = [q \in (DOMAIN fs.files) \cup {r.target} |->
                                          IF q = r.target THEN content ELSE fs.files[q]]]]

\* open(path, "wb") followed by write(content) and close: [err, fs]
write_file(fs, path, content) == WriteAt(fs, Resolve(fs, path), content)

\* open for reading at the resolution r, and the read
ReadAt(fs, r) ==
    IF r.err # NoError THEN [err |-> r.err, content |-> <<>>]
    ELSE IF IsDir(fs, r.target) THEN [err |-> "EISDIR", content |-> <<>>]
    ELSE IF ~IsFile(fs, r.target) THEN [err |-> "ENOENT", content |-> <<>>]
    ELSE IF r.dirOnly THEN [err |-> "ENOTDIR", content |-> <<>>]
    ELSE [err |-> NoError, content |-> fs.files[r.target]]

\* open(path, "rb") followed by read(): [err, content]
read_file(fs, path) == ReadAt(fs, Resolve(fs, path))

\* unlink at the resolution r
RemoveAt(fs, r) ==
    IF r.err # NoError THEN [err |-> r.err, fs |-> fs]
    ELSE IF IsDir(fs, r.target) THEN [err |-> "EISDIR", fs |-> fs]
    ELSE IF ~IsFile(fs, r.target) THEN [err |-> "ENOENT", fs |-> fs]
    ELSE IF r.dirOnly THEN [err |-> "ENOTDIR", fs |-> fs]
    ELSE [err |-> NoError,
          fs |-> [fs EXCEPT !.files = [q \in (DOMAIN fs.files) \ {r.target} |-> fs.files[q]]]]

\* os.remove(path): [err, fs]
os_remove(fs, path) == RemoveAt(fs, Resolve(fs, path))

\* the entries of the directory at the resolution r
ListAt(fs, r) ==
    IF r.err # NoError THEN [err |-> r.err, names |-> {}]
    ELSE IF IsFile(fs, r.target) THEN [err |-> "ENOTDIR", names |-> {}]
    ELSE IF ~IsDir(fs, r.target) THEN [err |-> "ENOENT", names |-> {}]
    ELSE [err |-> NoError,
          names |-> {q[Len(q)] : q \in {x \in fs.dirs \cup DOMAIN fs.files :
                                          x # <<>> /\ Parent(x) = r.target}}]

\* the names os.listdir(path) returns, as a set: [err, names]
listdir_names(fs, path) == ListAt(fs, Resolve(fs, path))

\* the orders in which os.listdir may return a set of names (the order is
\* whatever the file system yields)
Orderings(S) == {s \in [1..Cardinality(S) -> S] : \A x \in S : \E i \in 1..Cardinality(S) : s[i] = x}

\* the index of the last slash of p, 0 when it has none
LastSlash(p) ==
    IF \A i \in 1..Len(p) : p[i] # Slash THEN 0
    ELSE CHOOSE k \in 1..Len(p) : p[k] = Slash /\ \A j \in (k + 1)..Len(p) : p[j] # Slash

RECURSIVE RStripSlash(_)
\* head.rstrip("/")
RStripSlash(h) == IF h # <<>> /\ h[Len(h)] = Slash THEN RStripSlash(SubSeq(h, 1, Len(h) - 1)) ELSE h

\* the head keeps its slashes only when it consists of slashes
SplitResult(head, stripped, tail) == [head |-> IF stripped = <<>> THEN head ELSE stripped, tail |-> tail]

SplitHead(head, tail) == SplitResult(head, RStripSlash(head), tail)

SplitAt(p, i) == SplitHead(SubSeq(p, 1, i), DropFirst(p, i))

\* os.path.split(p): [head, tail] around the last slash
PathSplit(p) == SplitAt(p, LastSlash(p))

\* os.makedirs: `if not tail: head, tail = path.split(head)`
SplitAgain(s1) == IF s1.tail = <<>> THEN PathSplit(s1.head) ELSE s1

\* os.makedirs, the leaf: mkdir(name) gave made; a FileExistsError is
\* let pass when exist_ok and name is a directory
MakedirsMade(name, exist_ok, made) ==
    IF made.err = "EEXIST" /\ exist_ok /\ IsDir(made.fs, Resolve(made.fs, name).target)
    THEN [err |-> NoError, fs |-> made.fs]
    ELSE made

\* os.makedirs after the ancestors gave sub: an error other than
\* FileExistsError is raised, a name that ends in "." is not made
MakedirsLeaf(name, exist_ok, s2, deep, sub) ==
    IF sub.err \notin {NoError, "EEXIST"} THEN sub
    ELSE IF deep /\ s2.tail = Dot THEN [err |-> NoError, fs |-> sub.fs]
    ELSE MakedirsMade(name, exist_ok, os_mkdir(sub.fs, name))

RECURSIVE os_makedirs(_, _, _)
\* os.makedirs, the ancestors: made when deep (head and tail not empty and
\* head does not exist)
MakedirsDeep(fs, name, exist_ok, s2, deep) ==
    MakedirsLeaf(name, exist_ok, s2, deep,
                 IF deep THEN os_makedirs(fs, s2.head, exist_ok) ELSE [err |-> NoError, fs |-> fs])

MakedirsSplit(fs, name, exist_ok, s2) ==
    MakedirsDeep(fs, name, exist_ok, s2,
                 s2.head # <<>> /\ s2.tail # <<>> /\ ~path_exists(fs, s2.head))

\* os.makedirs(name, exist_ok): creates the missing ancestors (ignoring a
\* FileExistsError among them), then the leaf: [err, fs]
os_makedirs(fs, name, exist_ok) == MakedirsSplit(fs, name, exist_ok, SplitAgain(PathSplit(name)))

\* json.dumps of one character inside a string
JsonChar(ch) ==
    IF ch = "\"" THEN <<"\\", "\"">>
    ELSE IF ch = "\\" THEN <<"\\", "\\">>
    ELSE IF ch = "\n" THEN <<"\\", "n">>
    ELSE IF ch = "\t" THEN <<"\\", "t">>
    ELSE IF ch = "\r" THEN <<"\\", "r">>
    ELSE IF ch = "\\u00e9" THEN <<"\\", "u", "0", "0", "e", "9">>
    ELSE <<ch>>

\* json.dumps(s) for a str
JsonString(s) == <<"\"">> \o Concat([i \in 1..Len(s) |-> JsonChar(s[i])]) \o <<"\"">>

RECURSIVE JsonItems(_)
JsonItems(names) ==
    IF names = <<>> THEN <<>>
    ELSE IF Len(names) = 1 THEN JsonString(names[1])
    ELSE JsonString(names[1]) \o <<",", " ">> \o JsonItems(Tail(names))

\* json.dumps(names) for a list of str
json_dumps(names) == <<"[">> \o JsonItems(names) \o <<"]">>

\* _get_user_dir returns user_dir after makedirs gave made
UserDir(user_dir, made) == [err |-> made.err, fs |-> made.fs, dir |-> user_dir]

\* _get_user_dir: `if not os.path.exists(user_dir): os.makedirs(user_dir)`
EnsureDir(fs, user_dir) ==
    UserDir(user_dir, IF ~path_exists(fs, user_dir) THEN os_makedirs(fs, user_dir, FALSE)
                      ELSE [err |-> NoError, fs |-> fs])

\* FileServer._get_user_dir(username): [err, fs, dir]
get_user_dir(fs, username) == EnsureDir(fs, PathJoin(storage_dir, username))

\* what one iteration of handle_client's loop can do with the received
\* bytes data on a connection whose authenticated user is auth: the set of
\* [auth, fs, resp, closed]; resp = None when nothing is sent, closed when
\* an exception ends the handler (the finally clause closes the socket)
Outcome(auth, fs, resp) == [auth |-> auth, fs |-> fs, resp |-> resp, closed |-> FALSE]

Died(auth, fs) == [auth |-> auth, fs |-> fs, resp |-> None, closed |-> TRUE]

\* handle_auth with the two failure answers merged into one
handle_auth_one_error(auth, fs, parts) ==
    IF Len(parts) # 3 THEN {Outcome(auth, fs, R_INVALID_AUTH)}
    ELSE IF parts[2] \in DOMAIN users /\ users[parts[2]] = parts[3]
         THEN {Outcome(parts[2], fs, R_AUTHENTICATED)}
         ELSE {Outcome(auth, fs, R_INVALID_PASSWORD)}

\* handle_auth assigning authenticated_user before the password is compared
handle_auth_early_assign(auth, fs, parts) ==
    IF Len(parts) # 3 THEN {Outcome(auth, fs, R_INVALID_AUTH)}
    ELSE IF parts[2] \in DOMAIN users
         THEN IF users[parts[2]] = parts[3]
              THEN {Outcome(parts[2], fs, R_AUTHENTICATED)}
              ELSE {Outcome(parts[2], fs, R_INVALID_PASSWORD)}
         ELSE {Outcome(auth, fs, R_USER_NOT_FOUND)}

\* handle_auth logging the connection out when the AUTH fails
handle_auth_reset_on_failure(auth, fs, parts) ==
    IF Len(parts) # 3 THEN {Outcome(None, fs, R_INVALID_AUTH)}
    ELSE IF parts[2] \in DOMAIN users
         THEN IF users[parts[2]] = parts[3]
              THEN {Outcome(parts[2], fs, R_AUTHENTICATED)}
              ELSE {Outcome(None, fs, R_INVALID_PASSWORD)}
         ELSE {Outcome(None, fs, R_USER_NOT_FOUND)}

\* the AUTH branch
handle_auth(auth, fs, parts) ==
    IF Len(parts) # 3 THEN {Outcome(auth, fs, R_INVALID_AUTH)}
    ELSE LET username == parts[2]
             password == parts[3]
         IN IF username \in DOMAIN users
            THEN IF users[username] = password
                 THEN {Outcome(username, fs, R_AUTHENTICATED)}
                 ELSE {Outcome(auth, fs, R_INVALID_PASSWORD)}
            ELSE {Outcome(auth, fs, R_USER_NOT_FOUND)}

\* UPLOAD, after the file was written with result wr
upload_written(auth, file_path, wr) ==
    IF wr.err # NoError THEN {Outcome(auth, wr.fs, R_UPLOAD_FAILED \o OSErrorStr(wr.err, file_path))}
    ELSE {Outcome(auth, wr.fs, R_UPLOADED)}

\* UPLOAD, after _get_user_dir gave ud
upload_into(auth, filename, content, ud) ==
    IF ud.err # NoError THEN {Outcome(auth, ud.fs, R_UPLOAD_FAILED \o OSErrorStr(ud.err, ud.dir))}
    ELSE upload_written(auth, PathJoin(ud.dir, filename),
                        write_file(ud.fs, PathJoin(ud.dir, filename), content))

\* UPLOAD opening the file for writing before the payload is decoded
upload_decoded_open_first(auth, fs, filename, decoded) ==
    IF ~decoded.ok
    THEN {Outcome(auth, write_file(get_user_dir(fs, auth).fs,
                                   PathJoin(PathJoin(storage_dir, auth), filename), <<>>).fs,
                  R_UPLOAD_FAILED \o decoded.err)}
    ELSE upload_into(auth, filename, decoded.bytes, get_user_dir(fs, auth))

\* UPLOAD, after b64decode gave decoded
upload_decoded(auth, fs, filename, decoded) ==
    IF ~decoded.ok THEN {Outcome(auth, fs, R_UPLOAD_FAILED \o decoded.err)}
    ELSE upload_into(auth, filename, decoded.bytes, get_user_dir(fs, auth))

\* the UPLOAD branch
handle_upload(auth, fs, parts) ==
    IF Len(parts) < 3 THEN {Outcome(auth, fs, R_INVALID_UPLOAD)}
    ELSE upload_decoded(auth, fs, parts[2], Decoded(parts[3]))

\* DOWNLOAD, after the file was read with result rd
download_read(auth, fs, file_path, rd) ==
    IF rd.err = "ENOENT" THEN {Outcome(auth, fs, R_NOT_FOUND)}
    ELSE IF rd.err # NoError THEN {Outcome(auth, fs, R_DOWNLOAD_FAILED \o OSErrorStr(rd.err, file_path))}
    ELSE {Outcome(auth, fs, OK_SP \o b64encode(rd.content))}

\* DOWNLOAD, after _get_user_dir gave ud: its exception is not caught by
\* the branch and ends the handler
download_from(auth, filename, ud) ==
    IF ud.err # NoError THEN {Died(auth, ud.fs)}
    ELSE download_read(auth, ud.fs, PathJoin(ud.dir, filename),
                       read_file(ud.fs, PathJoin(ud.dir, filename)))

\* the DOWNLOAD branch
handle_download(auth, fs, parts) ==
    IF Len(parts) # 2 THEN {Outcome(auth, fs, R_INVALID_DOWNLOAD)}
    ELSE download_from(auth, parts[2], get_user_dir(fs, auth))

\* DELETE, after os.remove gave rm
delete_removed(auth, file_path, rm) ==
    IF rm.err = "ENOENT" THEN {Outcome(auth, rm.fs, R_NOT_FOUND)}
    ELSE IF rm.err # NoError THEN {Outcome(auth, rm.fs, R_DELETE_FAILED \o OSErrorStr(rm.err, file_path))}
    ELSE {Outcome(auth, rm.fs, R_DELETED)}

\* DELETE, after _get_user_dir gave ud: its exception is not caught by the
\* branch and ends the handler
delete_from(auth, filename, ud) ==
    IF ud.err # NoError THEN {Died(auth, ud.fs)}
    ELSE delete_removed(auth, PathJoin(ud.dir, filename), os_remove(ud.fs, PathJoin(ud.dir, filename)))

\* the DELETE branch
handle_delete(auth, fs, parts) ==
    IF Len(parts) # 2 THEN {Outcome(auth, fs, R_INVALID_DELETE)}
    ELSE delete_from(auth, parts[2], get_user_dir(fs, auth))

\* LIST, after os.listdir gave ls
list_listed(auth, ud, ls) ==
    IF ls.err # NoError THEN {Outcome(auth, ud.fs, R_LIST_FAILED \o OSErrorStr(ls.err, ud.dir))}
    ELSE {Outcome(auth, ud.fs, OK_SP \o json_dumps(files)) : files \in Orderings(ls.names)}

\* LIST, after _get_user_dir gave ud
list_in(auth, ud) ==
    IF ud.err # NoError THEN {Outcome(auth, ud.fs, R_LIST_FAILED \o OSErrorStr(ud.err, ud.dir))}
    ELSE list_listed(auth, ud, listdir_names(ud.fs, ud.dir))

\* the LIST branch
handle_list(auth, fs) == list_in(auth, get_user_dir(fs, auth))

\* dispatch with the LIST branch tested before the authentication gate
dispatch_list_ungated(auth, fs, p) ==
    IF p.command = <<>> THEN {Outcome(auth, fs, None)}
    ELSE IF p.cmd = V_AUTH THEN handle_auth(auth, fs, p.parts)
    ELSE IF auth = None /\ p.cmd # V_LIST THEN {Outcome(auth, fs, R_AUTH_REQUIRED)}
    ELSE IF p.cmd = V_UPLOAD THEN handle_upload(auth, fs, p.parts)
    ELSE IF p.cmd = V_DOWNLOAD THEN handle_download(auth, fs, p.parts)
    ELSE IF p.cmd = V_DELETE THEN handle_delete(auth, fs, p.parts)
    ELSE IF p.cmd = V_LIST THEN handle_list(auth, fs)
    ELSE {Outcome(auth, fs, R_UNKNOWN)}

\* handle_client, the branches on the command p = [command, parts, cmd]:
\* an empty command is skipped, AUTH is taken in any state, the others
\* need an authenticated user
dispatch(auth, fs, p) ==
    IF p.command = <<>> THEN {Outcome(auth, fs, None)}
    ELSE IF p.cmd = V_AUTH THEN handle_auth(auth, fs, p.parts)
    ELSE IF auth = None THEN {Outcome(auth, fs, R_AUTH_REQUIRED)}
    ELSE IF p.cmd = V_UPLOAD THEN handle_upload(auth, fs, p.parts)
    ELSE IF p.cmd = V_DOWNLOAD THEN handle_download(auth, fs, p.parts)
    ELSE IF p.cmd = V_DELETE THEN handle_delete(auth, fs, p.parts)
    ELSE IF p.cmd = V_LIST THEN handle_list(auth, fs)
    ELSE {Outcome(auth, fs, R_UNKNOWN)}

\* FileServer.handle_client, one iteration of the loop for non-empty data:
\* bytes that do not decode raise, which ends the handler
handle_command(auth, fs, data) ==
    IF ~DecodeOk(data) THEN {Died(auth, fs)}
    ELSE dispatch(auth, fs, Parsed(data))

(***************************************************************************)
(* The client: FileClient's fields, sockets and methods                    *)
(***************************************************************************)
\* len(self.nodes); the nodes are indexed from 0 as in the list
NumNodes == 2

Nodes == 0..(NumNodes - 1)

\* the advance of current_node left out
next_node_stay(i) == i

\* the loop bound of _connect_to_next_node doubled
more_attempts_twice(attempts) == attempts < 2 * NumNodes

\* _connect_to_next_node, the except clause: the index of the node to try
\* after node i failed
next_node(i) == (i + 1) % NumNodes

\* _connect_to_next_node, the loop condition
more_attempts(attempts) == attempts < NumNodes

\* self.session: None, a socket that connect was not (successfully) called
\* on, or a socket connected to what the server accepted as connection c
NoSocket == [fd |-> "none", peer |-> 0]

Unconnected == [fd |-> "unconnected", peer |-> 0]

Connected(c) == [fd |-> "connected", peer |-> c]

\* the first lines of _connect_to_next_node: a session is dropped and the
\* flag reset only when there is a session
drop_session(s, a) ==
    IF s # NoSocket THEN [session |-> NoSocket, authenticated |-> FALSE]
    ELSE [session |-> s, authenticated |-> a]

\* the bytes in flight on an accepted socket: toServer are sent by the
\* client and not yet received by handle_client (unserved counts the
\* commands in them), toClient are the responses not yet received by the
\* client, eof is set once the client has closed its end; answers is the
\* history of toClient: for each response in it, the data it answers
NoWire == [node |-> 0, toServer |-> <<>>, unserved |-> 0, toClient |-> <<>>, eof |-> FALSE,
           answers |-> <<>>]

NewWire(node) == [NoWire EXCEPT !.node = node]

\* the commands that one recv of handle_client may find waiting when the
\* client gave up waiting for responses and went on sending
MaxUnserved == 2

\* no method is running.  attempts is the local of _connect_to_next_node;
\* start and tried record, for the latest run of its loop, the value of
\* current_node at entry and the nodes tried with the outcome of each;
\* total_sent is the local of _send_command's send loop; response is what
\* the latest _send_command returned
NoCall == [pc |-> "idle", op |-> "none", command |-> <<>>, attempts |-> 0,
           start |-> 0, tried |-> <<>>, total_sent |-> 0, response |-> None]

\* the methods that need the flag
Gated == {"upload_file", "download_file", "delete_file", "list_files"}

\* the credentials the user of the client types: right ones and a wrong
\* password
ClientCredentials == {<<alice, secret1>>, <<bob, wrongpass>>}

\* the calls of the client's methods, each with the command it sends
ClientCalls ==
    {[op |-> "authenticate", command |-> AuthCmd(cr[1], cr[2])] : cr \in ClientCredentials}
    \cup {[op |-> "list_files", command |-> ListCmd]}

\* BUFFER_SIZE of client.py, the most bytes handed to one send
BUFFER_SIZE == 1048576

\* the free space of a socket's send buffer at a send: less than the
\* messages of the model, or more
SmallRoom == 8

LargeRoom == 64

Rooms == {SmallRoom, LargeRoom}

\* socket.send(buf) on a connected socket whose send buffer has room for
\* room bytes: the number of bytes taken
sock_send(buf, room) == IF Len(buf) <= room THEN Len(buf) ELSE room

\* command_bytes[total_sent:total_sent + BUFFER_SIZE]
send_slice(command_bytes, total_sent) ==
    SubSeq(command_bytes, total_sent + 1,
           IF Len(command_bytes) < total_sent + BUFFER_SIZE THEN Len(command_bytes)
           ELSE total_sent + BUFFER_SIZE)

\* the calls of a user who logs in and lists the files
TransportCalls ==
    {[op |-> "authenticate", command |-> AuthCmd(alice, secret1)],
     [op |-> "list_files", command |-> ListCmd]}

\* the calls of a user who logs in and uses every file method on one file
FileCalls ==
    {[op |-> "authenticate", command |-> AuthCmd(alice, secret1)],
     [op |-> "upload_file", command |-> UploadCmd(F_plain, B1)],
     [op |-> "download_file", command |-> DownloadCmd(F_plain)],
     [op |-> "delete_file", command |-> DeleteCmd(F_plain)],
     [op |-> "list_files", command |-> ListCmd]}

\* `if response and response.startswith("OK")`
IsOk(response) == response # None /\ response # <<>> /\ StartsWith(response, OK_PREFIX)

(***************************************************************************)
(* State                                                                   *)
(***************************************************************************)
VARIABLES
    fs,     \* the host file system: [dirs, files]
    conn,   \* per accepted socket: [state, authenticated_user]
    last,   \* the most recent event: [kind, c, data, user, resp]
    thread, \* per accepted socket: where its handle_client thread is, [pc, data, exists]
    watch,  \* history: the <<user, filename>> whose commands are recorded
    hist,   \* history of the commands of watch: [uploaded, cur, overwrote, deleted]
    live,           \* the nodes that accept connections
    net,            \* per accepted socket: the bytes in flight, [node, toServer, unserved, toClient, eof]
    current_node,   \* FileClient.current_node
    session,        \* FileClient.session
    authenticated,  \* FileClient.authenticated
    call,           \* the client method in progress and its locals
    auth_session,   \* history: the session on which authenticate last succeeded
    auth_user       \* history: the username of the authenticate call that last returned True

serverVars == <<fs, conn, last, thread>>

histVars == <<watch, hist>>

clientVars == <<live, net, current_node, session, authenticated, call, auth_session, auth_user>>

vars == <<fs, conn, last, thread, watch, hist, live, net, current_node, session, authenticated, call, auth_session, auth_user>>

\* FileServer.__init__: _ensure_storage_exists has created the storage
\* directory under the working directory
InitFs == [dirs |-> {<<>>, Cwd, Append(Cwd, storage_dir)}, files |-> <<>>]

Event(kind, c, data, user, resp) == [kind |-> kind, c |-> c, data |-> data, user |-> user, resp |-> resp]

\* nothing recorded: no upload of the user is acknowledged (uploaded), no
\* upload of the file is acknowledged and still current (cur), the current
\* upload replaced no other content (overwrote), no delete of the file is
\* acknowledged (deleted)
NoHist == [uploaded |-> FALSE, cur |-> None, overwrote |-> FALSE, deleted |-> FALSE]

\* the thread waits in recv; or it is inside _get_user_dir for the command
\* in data, between os.path.exists, which returned exists, and what follows
InRecv == [pc |-> "recv", data |-> <<>>, exists |-> FALSE]

InitServer ==
    /\ fs = InitFs
    /\ thread = [c \in Conns |-> InRecv]
    /\ conn = [c \in Conns |-> [state |-> "unused", authenticated_user |-> None]]
    /\ last = Event("init", 0, <<>>, None, None)

\* FileClient.__init__, before any method is called; no node is looked at
InitClient ==
    /\ net = [c \in Conns |-> NoWire]
    /\ current_node = 0
    /\ session = NoSocket
    /\ authenticated = FALSE
    /\ call = NoCall
    /\ auth_session = NoSocket
    /\ auth_user = None

Init ==
    /\ InitServer
    /\ watch = <<None, None>>
    /\ hist = NoHist
    /\ live = {}
    /\ InitClient

(***************************************************************************)
(* Server actions                                                          *)
(***************************************************************************)
\* FileServer.start accepts a connection and starts handle_client on it,
\* which begins with authenticated_user = None
start_accept(c) ==
    /\ conn[c].state = "unused"
    /\ \A d \in Conns : d < c => conn[d].state # "unused"
    /\ conn' = [conn EXCEPT ![c] = [state |-> "open", authenticated_user |-> None]]
    /\ last' = Event("accept", c, <<>>, None, None)
    /\ UNCHANGED <<fs, thread>>

\* a peer connects
Accept(c) == start_accept(c) /\ UNCHANGED <<histVars, clientVars>>

\* handle_client receives data (one message, non-empty) and processes it
Handle(c, data) ==
    /\ conn[c].state = "open"
    /\ thread[c].pc = "recv"
    /\ UNCHANGED thread
    /\ \E out \in handle_command(conn[c].authenticated_user, fs, data) :
        /\ fs' = out.fs
        /\ conn' = [conn EXCEPT ![c] = [state |-> IF out.closed THEN "closed" ELSE "open",
                                        authenticated_user |-> out.auth]]
        /\ last' = Event(IF out.closed THEN "died" ELSE "command", c, data,
                         conn[c].authenticated_user, out.resp)

\* a peer's message arrives on connection c
Receive(c, data) == Handle(c, data) /\ UNCHANGED <<histVars, clientVars>>

\* recv returns no data (the peer closed): the loop ends and the socket is
\* closed
recv_closed(c) ==
    /\ conn[c].state = "open"
    /\ thread[c].pc = "recv"
    /\ conn' = [conn EXCEPT ![c].state = "closed"]
    /\ last' = Event("disconnect", c, <<>>, conn[c].authenticated_user, None)
    /\ UNCHANGED <<fs, thread>>

\* the peer closes its socket
Disconnect(c) == recv_closed(c) /\ UNCHANGED <<histVars, clientVars>>

Next ==
    \/ \E c \in Conns : Accept(c)
    \/ \E c \in Conns, data \in Messages : Receive(c, data)
    \/ \E c \in Conns : Disconnect(c)

Spec == Init /\ [][Next]_vars

(***************************************************************************)
(* The storage specification: the same server fed the commands the client  *)
(* builds, with the history of the commands on one <<user, filename>>      *)
(***************************************************************************)
\* the history after user's message data was answered resp.  An UPLOAD or
\* DELETE of the watched user under another filename counts as one of the
\* watched filename too, since that name may lead to the same file
Record(h, user, data, resp) ==
    IF user # watch[1] THEN h
    ELSE IF \E b \in Contents : data = UploadCmd(watch[2], b)
         THEN IF resp = R_UPLOADED
              THEN LET payload == b64encode(CHOOSE b \in Contents : data = UploadCmd(watch[2], b))
                   IN [uploaded |-> TRUE, cur |-> payload,
                       overwrote |-> h.cur # None /\ h.cur # payload, deleted |-> FALSE]
              ELSE [h EXCEPT !.cur = None, !.overwrote = FALSE, !.deleted = FALSE]
    ELSE IF data = DeleteCmd(watch[2])
         THEN [uploaded |-> h.uploaded, cur |-> None, overwrote |-> FALSE,
               deleted |-> IF resp = R_DELETED THEN TRUE ELSE h.deleted]
    ELSE IF Parsed(data).cmd \in {V_UPLOAD, V_DELETE}
         THEN [uploaded |-> h.uploaded \/ resp = R_UPLOADED, cur |-> None,
               overwrote |-> FALSE, deleted |-> FALSE]
    ELSE h

\* one connection, on which the peer logs in as either user in turn (the
\* server takes a new AUTH at any time), so that the commands of the two
\* users interleave in every order
StorageConns == {c \in Conns : \A d \in Conns : c <= d}

StorageInit ==
    /\ InitServer
    /\ watch \in (DOMAIN users) \X FileNames
    /\ hist = NoHist
    /\ live = {}
    /\ InitClient

ReceiveRecorded(c, data) ==
    /\ Handle(c, data)
    /\ hist' = Record(hist, last'.user, data, last'.resp)
    /\ UNCHANGED <<watch, clientVars>>

StorageNext ==
    \/ \E c \in StorageConns : Accept(c)
    \/ \E c \in StorageConns, data \in StorageMessages : ReceiveRecorded(c, data)

StorageSpec == StorageInit /\ [][StorageNext]_vars

(***************************************************************************)
(* Client actions.  A method runs in steps: the attempts of the loop of    *)
(* _connect_to_next_node, the send and the recv of _send_command.          *)
(***************************************************************************)
\* the wire of a socket the client has closed or let go: what waited for
\* the client is discarded, the server will find the end of the stream
Dropped(w) == [w EXCEPT !.toClient = <<>>, !.answers = <<>>, !.eof = TRUE]

\* a method returns with _send_command's response, None when it sent nothing
Return(response) ==
    [pc |-> "idle", op |-> "none", command |-> <<>>, attempts |-> 0, start |-> 0, tried |-> <<>>,
     total_sent |-> 0, response |-> response]

\* _ensure_connected called with no session: _connect_to_next_node starts
EnterConnect(k) ==
    [pc |-> "connect", op |-> k.op, command |-> k.command, attempts |-> 0,
     start |-> current_node, tried |-> <<>>, total_sent |-> 0, response |-> None]

\* a gated method finds the flag unset and returns its failure value; op
\* keeps the name of the method that returned this way
Refuse(k) == [Return(None) EXCEPT !.op = k.op]

\* the methods without their check of the flag
call_ungated(k) ==
    /\ call.pc = "idle"
    /\ IF session = NoSocket
       THEN /\ call' = EnterConnect(k)
            /\ session' = drop_session(session, authenticated).session
            /\ authenticated' = drop_session(session, authenticated).authenticated
       ELSE /\ call' = [Return(None) EXCEPT !.pc = "send", !.op = k.op, !.command = k.command]
            /\ UNCHANGED <<session, authenticated>>
    /\ UNCHANGED <<serverVars, histVars, live, net, current_node, auth_session, auth_user>>

\* authenticate, upload_file, download_file, delete_file or list_files is
\* called: the gated ones return at once without the flag, the others
\* enter _send_command, which connects first when there is no session
Call(k) ==
    /\ call.pc = "idle"
    /\ IF k.op \in Gated /\ ~authenticated
       THEN /\ call' = Refuse(k)
            /\ UNCHANGED <<session, authenticated>>
       ELSE IF session = NoSocket
       THEN /\ call' = EnterConnect(k)
            /\ session' = drop_session(session, authenticated).session
            /\ authenticated' = drop_session(session, authenticated).authenticated
       ELSE /\ call' = [Return(None) EXCEPT !.pc = "send", !.op = k.op, !.command = k.command]
            /\ UNCHANGED <<session, authenticated>>
    /\ UNCHANGED <<serverVars, histVars, live, net, current_node, auth_session, auth_user>>

\* main: client._ensure_connected()
EnsureConnected ==
    /\ call.pc = "idle"
    /\ IF session = NoSocket
       THEN /\ call' = EnterConnect([op |-> "ensure_connected", command |-> <<>>])
            /\ session' = drop_session(session, authenticated).session
            /\ authenticated' = drop_session(session, authenticated).authenticated
       ELSE /\ call' = Return(None)
            /\ UNCHANGED <<session, authenticated>>
    /\ UNCHANGED <<serverVars, histVars, live, net, current_node, auth_session, auth_user>>

\* an iteration of the loop whose connect succeeds: the node is live and
\* its server accepts connection c; _connect_to_next_node returns True
ConnectSucceeds(c) ==
    /\ call.pc = "connect"
    /\ current_node \in live
    /\ start_accept(c)
    /\ net' = [net EXCEPT ![c] = NewWire(current_node)]
    /\ session' = Connected(c)
    /\ call' = [call EXCEPT !.pc = IF call.op = "ensure_connected" THEN "idle" ELSE "send",
                            !.op = IF call.op = "ensure_connected" THEN "none" ELSE call.op,
                            !.tried = Append(call.tried, [node |-> current_node, ok |-> TRUE])]
    /\ UNCHANGED <<histVars, live, current_node, authenticated, auth_session, auth_user>>

\* an iteration of the loop whose connect raises: the socket just made stays
\* in self.session, the next node becomes current, and after the last
\* attempt _connect_to_next_node returns False and the method returns
ConnectFails ==
    /\ call.pc = "connect"
    /\ current_node \notin live
    /\ session' = Unconnected
    /\ current_node' = next_node(current_node)
    /\ call' = IF more_attempts(call.attempts + 1)
               THEN [call EXCEPT !.attempts = call.attempts + 1,
                                 !.tried = Append(call.tried, [node |-> current_node, ok |-> FALSE])]
               ELSE [pc |-> "idle", op |-> "none", command |-> <<>>, attempts |-> call.attempts + 1,
                     start |-> call.start,
                     tried |-> Append(call.tried, [node |-> current_node, ok |-> FALSE]),
                     total_sent |-> 0, response |-> None]
    /\ UNCHANGED <<serverVars, histVars, live, net, authenticated, auth_session, auth_user>>

\* _send_command, the send loop, on a connected socket whose peer is open
SendDelivers ==
    /\ call.pc = "send"
    /\ session.fd = "connected"
    /\ conn[session.peer].state = "open"
    /\ net' = [net EXCEPT ![session.peer].toServer = @ \o call.command,
                          ![session.peer].unserved = @ + 1]
    /\ call' = [Return(None) EXCEPT !.pc = "recv", !.op = call.op, !.command = call.command,
                                    !.total_sent = Len(call.command)]
    /\ UNCHANGED <<serverVars, histVars, live, current_node, session, authenticated, auth_session, auth_user>>

\* the send raises, on a socket that never connected or whose peer is gone:
\* the outer except clause sets self.session = None and returns None
SendRaises ==
    /\ call.pc = "send"
    /\ \/ session.fd = "unconnected"
       \/ session.fd = "connected" /\ conn[session.peer].state = "closed"
    /\ session' = NoSocket
    /\ net' = IF session.fd = "connected" THEN [net EXCEPT ![session.peer] = Dropped(@)] ELSE net
    /\ call' = Return(None)
    /\ UNCHANGED <<serverVars, histVars, live, current_node, authenticated, auth_session, auth_user>>

\* the send to a peer that is gone is taken by the local socket buffer
SendLost ==
    /\ call.pc = "send"
    /\ session.fd = "connected"
    /\ conn[session.peer].state = "closed"
    /\ call' = [Return(None) EXCEPT !.pc = "recv", !.op = call.op, !.command = call.command]
    /\ UNCHANGED <<serverVars, histVars, live, net, current_node, session, authenticated, auth_session, auth_user>>

\* authenticate: the username in f"AUTH {username} {password}"
username_of(command) == Split(command, 2)[2]

\* the method that called _send_command takes the response: authenticate
\* sets the flag on a response that starts with OK
Finish(response) ==
    /\ call' = Return(response)
    /\ authenticated' = IF call.op = "authenticate" /\ IsOk(response) THEN TRUE ELSE authenticated
    /\ auth_session' = IF call.op = "authenticate" /\ IsOk(response) THEN session ELSE auth_session
    /\ auth_user' = IF call.op = "authenticate" /\ IsOk(response) THEN username_of(call.command)
                     ELSE auth_user

\* recv returns the bytes that wait on the socket
RecvResponse ==
    /\ call.pc = "recv"
    /\ net[session.peer].toClient # <<>>
    /\ net' = [net EXCEPT ![session.peer].toClient = <<>>, ![session.peer].answers = <<>>]
    /\ Finish(net[session.peer].toClient)
    /\ UNCHANGED <<serverVars, histVars, live, current_node, session>>

\* nothing waits and the peer is gone: recv returns b"" or raises, and
\* _send_command returns "" or None, the session kept
RecvNothing ==
    /\ call.pc = "recv"
    /\ net[session.peer].toClient = <<>>
    /\ conn[session.peer].state = "closed"
    /\ \E response \in {<<>>, None} : Finish(response)
    /\ UNCHANGED <<serverVars, histVars, live, net, current_node, session>>

\* nothing arrives within the timeout: _send_command returns None, the
\* session kept and the command still on its way
RecvTimeout ==
    /\ call.pc = "recv"
    /\ net[session.peer].toClient = <<>>
    /\ conn[session.peer].state = "open"
    /\ net[session.peer].unserved < MaxUnserved
    /\ Finish(None)
    /\ UNCHANGED <<serverVars, histVars, live, net, current_node, session>>

\* FileClient.close
Close ==
    /\ call.pc = "idle"
    /\ net' = IF session.fd = "connected" THEN [net EXCEPT ![session.peer] = Dropped(@)] ELSE net
    /\ session' = NoSocket
    /\ authenticated' = FALSE
    /\ call' = Return(None)
    /\ UNCHANGED <<serverVars, histVars, live, current_node, auth_session, auth_user>>

\* the Logout choice done by calling close()
logout_by_close == authenticated /\ Close

\* main, the Logout choice, offered when the flag is set
Logout ==
    /\ call.pc = "idle"
    /\ authenticated
    /\ authenticated' = FALSE
    /\ call' = Return(None)
    /\ UNCHANGED <<serverVars, histVars, live, net, current_node, session, auth_session, auth_user>>

(***************************************************************************)
(* The servers of the nodes.  They run in one working directory, so they   *)
(* share the storage; each accepted socket has its handle_client.          *)
(***************************************************************************)
\* handle_client receives all that the client has sent and answers it
Serve(c) ==
    /\ net[c].toServer # <<>>
    /\ Handle(c, net[c].toServer)
    /\ net' = [net EXCEPT ![c].toServer = <<>>, ![c].unserved = 0,
                          ![c].toClient = IF last'.resp = None \/ net[c].eof THEN @ ELSE @ \o last'.resp,
                          ![c].answers = IF last'.resp = None \/ net[c].eof THEN @
                                         ELSE Append(@, [data |-> net[c].toServer, resp |-> last'.resp])]
    /\ UNCHANGED <<histVars, live, current_node, session, authenticated, call, auth_session, auth_user>>

\* handle_client finds the socket closed by the client
ServeEof(c) ==
    /\ net[c].eof
    /\ net[c].toServer = <<>>
    /\ recv_closed(c)
    /\ UNCHANGED <<histVars, clientVars>>

\* the server of a node stops: its sockets close, it accepts no more
NodeDown(n) ==
    /\ n \in live
    /\ live' = live \ {n}
    /\ conn' = [c \in Conns |-> IF conn[c].state = "open" /\ net[c].node = n
                                THEN [conn[c] EXCEPT !.state = "closed"] ELSE conn[c]]
    /\ net' = [c \in Conns |-> IF net[c].node = n THEN [net[c] EXCEPT !.toServer = <<>>, !.unserved = 0]
                                ELSE net[c]]
    /\ last' = Event("down", 0, <<>>, None, None)
    /\ UNCHANGED <<fs, thread, histVars, current_node, session, authenticated, call, auth_session, auth_user>>

\* the server of a node is started
NodeUp(n) ==
    /\ n \notin live
    /\ live' = live \cup {n}
    /\ UNCHANGED <<serverVars, histVars, net, current_node, session, authenticated, call, auth_session, auth_user>>

ClientNext ==
    \/ \E k \in ClientCalls : Call(k)
    \/ EnsureConnected
    \/ \E c \in Conns : ConnectSucceeds(c)
    \/ ConnectFails
    \/ SendDelivers
    \/ SendRaises
    \/ SendLost
    \/ RecvResponse
    \/ RecvNothing
    \/ RecvTimeout
    \/ Close
    \/ Logout
    \/ \E c \in Conns : Serve(c)
    \/ \E c \in Conns : ServeEof(c)
    \/ \E n \in Nodes : NodeDown(n)
    \/ \E n \in Nodes : NodeUp(n)

ClientSpec == Init /\ [][ClientNext]_vars

\* the client's thread keeps running the loop of _connect_to_next_node
ClientLiveSpec == ClientSpec /\ WF_vars(ConnectFails)


(***************************************************************************)
(* The file methods specification: the client calls every method, against  *)
(* servers that answer in time and keep running once started.              *)
(***************************************************************************)
FileNext ==
    \/ \E k \in FileCalls : Call(k)
    \/ EnsureConnected
    \/ \E c \in Conns : ConnectSucceeds(c)
    \/ ConnectFails
    \/ SendDelivers
    \/ RecvResponse
    \/ Close
    \/ Logout
    \/ \E c \in Conns : Serve(c)
    \/ \E c \in Conns : ServeEof(c)
    \/ \E n \in Nodes : NodeUp(n)

FileSpec == Init /\ [][FileNext]_vars

(***************************************************************************)
(* The threads specification: the handle_client threads of one server      *)
(* interleave inside _get_user_dir, between os.path.exists and what        *)
(* follows it, and the server is shut down.                                *)
(***************************************************************************)
StorageVerbs == {V_UPLOAD, V_DOWNLOAD, V_DELETE, V_LIST}

\* the command p of user auth gets as far as its call of _get_user_dir
calls_get_user_dir(auth, p) ==
    /\ p.command # <<>>
    /\ auth # None
    /\ \/ p.cmd = V_UPLOAD /\ Len(p.parts) = 3 /\ Decoded(p.parts[3]).ok
       \/ p.cmd \in {V_DOWNLOAD, V_DELETE} /\ Len(p.parts) = 2
       \/ p.cmd = V_LIST

\* _get_user_dir after os.path.exists(user_dir) returned exists: makedirs
\* runs on the file system as it is by then
user_dir_after(f, user_dir, exists) ==
    UserDir(user_dir, IF ~exists THEN os_makedirs(f, user_dir, FALSE) ELSE [err |-> NoError, fs |-> f])

\* the rest of the branch of command p once _get_user_dir gave ud
after_user_dir(auth, p, ud) ==
    IF p.cmd = V_UPLOAD THEN upload_into(auth, p.parts[2], Decoded(p.parts[3]).bytes, ud)
    ELSE IF p.cmd = V_DOWNLOAD THEN download_from(auth, p.parts[2], ud)
    ELSE IF p.cmd = V_DELETE THEN delete_from(auth, p.parts[2], ud)
    ELSE list_in(auth, ud)

\* the messages of the threads specification: a login and one command of
\* each storage verb
ThreadMessages ==
    {AuthCmd(alice, secret1), UploadCmd(F_plain, B1), DownloadCmd(F_plain), DeleteCmd(F_plain), ListCmd}

\* the server is node 0 and runs
ThreadInit ==
    /\ InitServer
    /\ watch = <<None, None>>
    /\ hist = NoHist
    /\ live = {0}
    /\ InitClient

\* the accept loop of a running server takes a connection
ThreadAccept(c) == 0 \in live /\ Accept(c)

\* the thread of connection c receives a storage command and runs up to
\* os.path.exists(user_dir) in _get_user_dir
GetUserDirExists(c, data) ==
    /\ conn[c].state = "open"
    /\ thread[c].pc = "recv"
    /\ DecodeOk(data)
    /\ calls_get_user_dir(conn[c].authenticated_user, Parsed(data))
    /\ thread' = [thread EXCEPT ![c] =
                     [pc |-> "checked", data |-> data,
                      exists |-> path_exists(fs, PathJoin(storage_dir, conn[c].authenticated_user))]]
    /\ last' = Event("exists", c, data, conn[c].authenticated_user, None)
    /\ UNCHANGED <<fs, conn, histVars, clientVars>>

\* the thread goes on from os.path.exists to the end of the iteration
GetUserDirReturns(c) ==
    /\ conn[c].state = "open"
    /\ thread[c].pc = "checked"
    /\ \E out \in after_user_dir(conn[c].authenticated_user, Parsed(thread[c].data),
                                 user_dir_after(fs, PathJoin(storage_dir, conn[c].authenticated_user),
                                                thread[c].exists)) :
        /\ fs' = out.fs
        /\ conn' = [conn EXCEPT ![c] = [state |-> IF out.closed THEN "closed" ELSE "open",
                                        authenticated_user |-> out.auth]]
        /\ last' = Event(IF out.closed THEN "died" ELSE "command", c, thread[c].data,
                         conn[c].authenticated_user, out.resp)
    /\ thread' = [thread EXCEPT ![c] = InRecv]
    /\ UNCHANGED <<histVars, clientVars>>

\* KeyboardInterrupt in the accept loop: start closes the listening socket
\* and returns, the main thread ends, and the process exits without
\* waiting for the handler threads, which are daemon threads: every
\* handler stops where it is and its socket is closed
Shutdown ==
    /\ 0 \in live
    /\ live' = {}
    /\ conn' = [c \in Conns |-> IF conn[c].state = "open" THEN [conn[c] EXCEPT !.state = "closed"]
                                ELSE conn[c]]
    /\ thread' = [c \in Conns |-> InRecv]
    /\ last' = Event("shutdown", 0, <<>>, None, None)
    /\ UNCHANGED <<fs, histVars, net, current_node, session, authenticated, call, auth_session, auth_user>>

ThreadNext ==
    \/ \E c \in Conns : ThreadAccept(c)
    \/ \E c \in Conns, data \in ThreadMessages : Receive(c, data)
    \/ \E c \in Conns, data \in ThreadMessages : GetUserDirExists(c, data)
    \/ \E c \in Conns : GetUserDirReturns(c)
    \/ \E c \in Conns : Disconnect(c)
    \/ Shutdown

ThreadSpec == ThreadInit /\ [][ThreadNext]_vars

\* run without another thread in between, the two steps do what
\* handle_command does in one
SequentialSteps ==
    \A c \in Conns : thread[c].pc = "checked" /\ conn[c].state = "open"
        /\ thread[c].exists = path_exists(fs, PathJoin(storage_dir, conn[c].authenticated_user))
        => after_user_dir(conn[c].authenticated_user, Parsed(thread[c].data),
                          user_dir_after(fs, PathJoin(storage_dir, conn[c].authenticated_user), thread[c].exists))
           = handle_command(conn[c].authenticated_user, fs, thread[c].data)

(***************************************************************************)
(* The transport specification: a send takes as many bytes as the socket's *)
(* send buffer has room for, on the client and on the server.              *)
(***************************************************************************)
\* one iteration of _send_command's send loop in which send returned sent:
\* zero raises RuntimeError, which the outer except clause answers with
\* self.session = None and None; otherwise total_sent advances and the
\* loop goes on until the whole command is sent
send_loop(sent) ==
    IF sent = 0
    THEN /\ session' = NoSocket
         /\ net' = [net EXCEPT ![session.peer] = Dropped(@)]
         /\ call' = Return(None)
    ELSE /\ net' = [net EXCEPT
                      ![session.peer].toServer =
                          @ \o SubSeq(call.command, call.total_sent + 1, call.total_sent + sent),
                      ![session.peer].unserved =
                          IF call.total_sent + sent < Len(call.command) THEN @ ELSE @ + 1]
         /\ call' = [call EXCEPT !.total_sent = @ + sent,
                                 !.pc = IF call.total_sent + sent < Len(call.command) THEN "send" ELSE "recv"]
         /\ UNCHANGED session

\* an iteration of the send loop on a connected socket whose peer is open
\* and whose send buffer has room for room bytes
SendSome(room) ==
    /\ call.pc = "send"
    /\ session.fd = "connected"
    /\ conn[session.peer].state = "open"
    /\ send_loop(sock_send(send_slice(call.command, call.total_sent), room))
    /\ UNCHANGED <<serverVars, histVars, live, current_node, authenticated, auth_session, auth_user>>

\* handle_client receives all that has arrived and answers it with one
\* client_socket.send(...), whose return value it does not look at: the
\* bytes the socket did not take are never sent
ServeSending(c, room) ==
    /\ net[c].toServer # <<>>
    /\ Handle(c, net[c].toServer)
    /\ net' = [net EXCEPT ![c].toServer = <<>>, ![c].unserved = 0,
                          ![c].toClient = IF last'.resp = None \/ net[c].eof THEN @
                                          ELSE @ \o SubSeq(last'.resp, 1, sock_send(last'.resp, room)),
                          ![c].answers = IF last'.resp = None \/ net[c].eof THEN @
                                         ELSE Append(@, [data |-> net[c].toServer, resp |-> last'.resp])]
    /\ UNCHANGED <<histVars, live, current_node, session, authenticated, call, auth_session, auth_user>>

TransportNext ==
    \/ \E k \in TransportCalls : Call(k)
    \/ \E c \in Conns : ConnectSucceeds(c)
    \/ ConnectFails
    \/ \E room \in Rooms : SendSome(room)
    \/ RecvResponse
    \/ Close
    \/ \E c \in Conns, room \in Rooms : ServeSending(c, room)
    \/ \E c \in Conns : ServeEof(c)
    \/ \E n \in Nodes : NodeUp(n)

TransportSpec == Init /\ [][TransportNext]_vars
(***************************************************************************)
(* Claims about the server                                                 *)
(***************************************************************************)
\* the event is a received message that decoded to a non-empty command
IsCommand(e) == e.kind \in {"command", "died"} /\ DecodeOk(e.data) /\ Parsed(e.data).command # <<>>

Verb(e) == Parsed(e.data).cmd

\* all the whitespace-separated words of the command
Words(e) == Split(Strip(e.data), Len(e.data))

AuthUser(c) == conn[c].authenticated_user

\* the content at (user, filename) of the storage, as a set of at most one
FileAt(f, user, filename) ==
    LET p == Cwd \o <<storage_dir, user, filename>>
    IN IF p \in DOMAIN f.files THEN {f.files[p]} ELSE {}

\* how often the LIST response resp names filename
Listed(resp, filename) ==
    LET item == JsonString(filename)
    IN Cardinality({i \in 1..Len(resp) : i + Len(item) - 1 <= Len(resp)
                                          /\ SubSeq(resp, i, i + Len(item) - 1) = item})

\* C1: on a connection whose authenticated user is none, every non-empty
\* command whose verb is not AUTH is answered "ERROR Authentication
\* required", and the step changes neither the connection's authenticated
\* user nor the file system, and leaves the connection open
C1_AuthGating ==
    [][(IsCommand(last') /\ last'.user = None /\ Verb(last') # V_AUTH)
        => /\ last'.resp = R_AUTH_REQUIRED
           /\ conn'[last'.c] = [state |-> "open", authenticated_user |-> None]
           /\ fs' = fs]_vars

\* C1 witness: a DELETE on an unauthenticated connection was refused while
\* another connection's file is in the storage
C1_Witness ==
    /\ IsCommand(last) /\ last.user = None /\ Verb(last) = V_DELETE
    /\ last.resp = R_AUTH_REQUIRED
    /\ DOMAIN fs.files # {}

\* C2 as stated: once a connection's authenticated user is some user, no
\* step changes it
C2_NeverChanges ==
    [][\A c \in Conns : AuthUser(c) # None => conn'[c].authenticated_user = AuthUser(c)]_vars

\* C2 amended: a connection's authenticated user changes only when that
\* connection handles an AUTH naming a user of the mapping with that user's
\* secret, answered "OK Authenticated"; it then is the user named, also
\* when another user was authenticated before
C2_ChangesOnlyByAuth ==
    [][\A c \in Conns :
        conn'[c].authenticated_user # AuthUser(c)
        => /\ IsCommand(last') /\ last'.c = c /\ Verb(last') = V_AUTH
           /\ last'.resp = R_AUTHENTICATED
           /\ Len(Parsed(last'.data).parts) = 3
           /\ conn'[c].authenticated_user = Parsed(last'.data).parts[2]
           /\ Parsed(last'.data).parts[2] \in DOMAIN users
           /\ users[Parsed(last'.data).parts[2]] = Parsed(last'.data).parts[3]]_vars

\* C2 witness: a connection authenticated as alice has become bob's
C2_Witness ==
    /\ IsCommand(last) /\ last.user = alice /\ Verb(last) = V_AUTH
    /\ AuthUser(last.c) = bob

\* C5: an AUTH of exactly two words (user, pass) is answered by the user
\* mapping alone: user absent, "ERROR User not found"; secret different,
\* "ERROR Invalid password"; secret equal, "OK Authenticated" and the
\* connection's authenticated user is that user.  An AUTH of fewer than
\* two arguments is answered "ERROR Invalid auth command"
C5_AuthOutcomes ==
    (IsCommand(last) /\ Verb(last) = V_AUTH)
    => LET w == Words(last)
       IN /\ Len(w) < 3 => last.resp = R_INVALID_AUTH
          /\ Len(w) = 3 =>
               /\ w[2] \notin DOMAIN users => last.resp = R_USER_NOT_FOUND
               /\ (w[2] \in DOMAIN users /\ users[w[2]] # w[3]) => last.resp = R_INVALID_PASSWORD
               /\ (w[2] \in DOMAIN users /\ users[w[2]] = w[3])
                    => last.resp = R_AUTHENTICATED /\ AuthUser(last.c) = w[2]

\* C5 witness: an AUTH for an unknown user was answered "ERROR User not
\* found" on a connection that had authenticated before
C5_Witness ==
    /\ IsCommand(last) /\ Verb(last) = V_AUTH /\ Len(Words(last)) = 3
    /\ last.resp = R_USER_NOT_FOUND
    /\ last.user # None

(***************************************************************************)
(* Claims about the storage (StorageSpec).  watch = <<U, F>>; hist is the  *)
(* history of U's commands on F before the step.                           *)
(***************************************************************************)
\* the event is U's DOWNLOAD F / DELETE F as the client builds them
IsDownloadOfWatched(e) == IsCommand(e) /\ e.user = watch[1] /\ e.data = DownloadCmd(watch[2])

IsDeleteOfWatched(e) == IsCommand(e) /\ e.user = watch[1] /\ e.data = DeleteCmd(watch[2])

\* C4 as stated: a connection authenticated as A addresses only A's files.
\* While no upload of A is acknowledged, A's DOWNLOAD and DELETE of any one
\* filename are answered "ERROR File not found" and A's LIST names no file;
\* and no command of another user changes the file stored at (U, F)
C4_NamespaceIsolation ==
    [][(IsCommand(last') /\ last'.user # None)
        => /\ (last'.user = watch[1] /\ ~hist.uploaded /\ Verb(last') \in {V_DOWNLOAD, V_DELETE}
                 /\ Len(Words(last')) = 2)
              => last'.resp = R_NOT_FOUND
           /\ (last'.user = watch[1] /\ ~hist.uploaded /\ Verb(last') = V_LIST)
              => last'.resp = OK_SP \o json_dumps(<<>>)
           /\ last'.user # watch[1]
              => FileAt(fs', watch[1], watch[2]) = FileAt(fs, watch[1], watch[2])]_vars

\* C6 as stated: after U's UPLOAD of F with payload encode(B) was answered
\* "OK File uploaded", with no UPLOAD or DELETE of (U, F) since, U's
\* DOWNLOAD F is answered "OK " followed by encode(B)
C6_RoundTrip ==
    (IsDownloadOfWatched(last) /\ hist.cur # None) => last.resp = OK_SP \o hist.cur

\* C7 as stated: after U uploaded F twice with different contents, both
\* answered OK, U's DOWNLOAD F returns the second payload (so not the
\* first) and U's LIST names F exactly once
C7_Overwrite ==
    hist.overwrote
    => /\ IsDownloadOfWatched(last) => last.resp = OK_SP \o hist.cur
       /\ (IsCommand(last) /\ last.user = watch[1] /\ last.data = ListCmd)
            => Listed(last.resp, watch[2]) = 1

\* C8 as stated: after U's DELETE F was answered "OK File deleted", with no
\* UPLOAD of (U, F) since, U's DOWNLOAD F and U's next DELETE F are answered
\* "ERROR File not found"
C8_DeleteThenDownload ==
    [][(hist.deleted /\ (IsDownloadOfWatched(last') \/ IsDeleteOfWatched(last')))
        => last'.resp = R_NOT_FOUND]_vars

(***************************************************************************)
(* Claims about the client (ClientSpec)                                    *)
(***************************************************************************)
\* the step in which _connect_to_next_node returns True
ConnectReturnsTrue == call.pc = "connect" /\ session'.fd = "connected"

\* the step in which _connect_to_next_node returns False
ConnectReturnsFalse == call.pc = "connect" /\ call'.pc = "idle" /\ session'.fd # "connected"

\* the node tried in attempt k of a loop entered at index i
Cyclic(i, k) == (i + k - 1) % NumNodes

\* C3 as stated: the client's authenticated flag is true only while the
\* session is the open connection on which AUTH succeeded; after any
\* reconnect the flag is false
C3_FlagOnlyOnAuthSession ==
    authenticated => (session.fd = "connected" /\ session = auth_session)

\* C9: _connect_to_next_node tries the nodes in cyclic order from the
\* index it was entered with and returns True at the first that accepts;
\* current_node is then the index of the node the session is connected to,
\* and it does not move outside the loop, so the next run starts from it
C9_FailoverSuccess ==
    [][/\ ConnectReturnsTrue
          => /\ Len(call'.tried) \in 1..NumNodes
             /\ \A k \in 1..Len(call'.tried) :
                    /\ call'.tried[k].node = Cyclic(call'.start, k)
                    /\ call'.tried[k].ok <=> k = Len(call'.tried)
             /\ current_node' = call'.tried[Len(call'.tried)].node
             /\ current_node' \in live
             /\ net'[session'.peer].node = current_node'
       /\ call.pc # "connect" => current_node' = current_node
       /\ (call.pc # "connect" /\ call'.pc = "connect") => call'.start = current_node']_vars

\* nodes [dead, live]: the loop entered at 0 has failed at 0 and connected
\* to 1, which is current
C9_Witness ==
    /\ call.tried = <<[node |-> 0, ok |-> FALSE], [node |-> 1, ok |-> TRUE]>>
    /\ call.start = 0
    /\ current_node = 1
    /\ session.fd = "connected"
    /\ net[session.peer].node = 1

\* C10: when every attempt fails, _connect_to_next_node returns False after
\* len(nodes) attempts, one on each node, and current_node is back at the
\* value it was entered with; with all nodes down the loop does end
C10_FailoverTermination ==
    /\ [][ConnectReturnsFalse
           => /\ call'.attempts = NumNodes
              /\ Len(call'.tried) = NumNodes
              /\ \A k \in 1..NumNodes : call'.tried[k] = [node |-> Cyclic(call'.start, k), ok |-> FALSE]
              /\ \A n \in Nodes : Cardinality({k \in 1..NumNodes : call'.tried[k].node = n}) = 1
              /\ current_node' = call'.start
              /\ call'.response = None]_vars
    /\ (call.pc = "connect" /\ live = {}) ~> (call.pc = "idle" \/ live # {})

\* all nodes down and the loop, entered at index 1, has returned False
C10_Witness ==
    /\ call.pc = "idle"
    /\ Len(call.tried) = NumNodes
    /\ \A k \in 1..NumNodes : ~call.tried[k].ok
    /\ call.start = 1
    /\ current_node = 1
    /\ session = Unconnected


(***************************************************************************)
(* Claims about the client's methods and the server's error answers        *)
(***************************************************************************)
\* a step in which method k is called while the flag is unset
CalledUnauthenticated(k) == ~authenticated /\ Call(k)

\* C11: upload_file, download_file, delete_file and list_files called
\* while the client's flag is false return their failure value at once:
\* no bytes are sent, no connection is opened, and the session, the
\* current node index and the flag stay as they were
C11_ClientGating ==
    [][\A k \in FileCalls :
          (k.op \in Gated /\ CalledUnauthenticated(k)) =>
              /\ call'.pc = "idle"
              /\ call'.response = None
              /\ UNCHANGED <<net, conn, fs, session, current_node, authenticated>>]_vars

\* an upload was refused on a connected session whose server side is
\* logged in (the user logged out before), the second node being current
C11_Witness ==
    /\ call.pc = "idle"
    /\ call.op = "upload_file"
    /\ ~authenticated
    /\ session.fd = "connected"
    /\ conn[session.peer].state = "open"
    /\ conn[session.peer].authenticated_user = alice
    /\ current_node = 1

\* C12: the client's logout is local: it sets the flag to false and does
\* nothing else, so no bytes are sent, the socket stays open and the
\* server's authenticated user of the connection stays as it was
C12_LogoutLocal ==
    [][Logout =>
          /\ ~authenticated'
          /\ UNCHANGED <<session, net, conn, fs, current_node, live>>]_vars

\* the user has logged out of the session that authenticate succeeded on:
\* the socket is connected and the server still holds alice for it
C12_Witness ==
    /\ call.pc = "idle"
    /\ call.op = "none"
    /\ ~authenticated
    /\ session.fd = "connected"
    /\ session = auth_session
    /\ conn[session.peer].state = "open"
    /\ conn[session.peer].authenticated_user = alice
    /\ net[session.peer].toServer = <<>>

\* a step in which _send_command, running on the session that authenticate
\* succeeded on, returns None: the send raised, or the recv timed out or
\* raised
SendCommandFails ==
    /\ authenticated
    /\ session.fd = "connected"
    /\ session = auth_session
    /\ call.pc \in {"send", "recv"}
    /\ call'.pc = "idle"
    /\ call'.response = None

\* C13: a send or receive failure (timeout or socket error) inside
\* _send_command on an authenticated connection leaves the client
\* disconnected: no session and the flag false
C13_FailureDisconnects ==
    [][SendCommandFails => (session' = NoSocket /\ ~authenticated')]_vars

Verbs == {V_AUTH, V_UPLOAD, V_DOWNLOAD, V_DELETE, V_LIST}

IsError(resp) == resp # None /\ StartsWith(resp, <<"E", "R", "R", "O", "R", " ">>)

\* an AUTH that is not a user of the mapping followed by that user's secret
FailedAuth(e) ==
    /\ Verb(e) = V_AUTH
    /\ ~(/\ Len(Words(e)) = 3
         /\ Words(e)[2] \in DOMAIN users
         /\ users[Words(e)[2]] = Words(e)[3])

\* an UPLOAD without filename and payload, a DOWNLOAD or DELETE without
\* exactly one filename
WrongArity(e) ==
    \/ Verb(e) = V_UPLOAD /\ Len(Words(e)) < 3
    \/ Verb(e) \in {V_DOWNLOAD, V_DELETE} /\ Len(Words(e)) # 2

UnknownVerb(e) == Upper(Words(e)[1]) \notin Verbs

\* C14: a failed AUTH on any connection (authenticated or not), a
\* wrong-arity UPLOAD, DOWNLOAD or DELETE, and an unknown verb on an
\* authenticated connection are answered with an ERROR response (the
\* unknown verb, compared without regard to case, with "ERROR Unknown
\* command"); the step leaves the connection's authenticated user and the
\* storage unchanged and the connection open
C14_ErrorsChangeNothing ==
    [][IsCommand(last') =>
          /\ (FailedAuth(last') \/ WrongArity(last') \/ (UnknownVerb(last') /\ last'.user # None))
                => /\ last'.kind = "command"
                   /\ IsError(last'.resp)
                   /\ conn'[last'.c] = [state |-> "open", authenticated_user |-> last'.user]
                   /\ fs' = fs
          /\ (UnknownVerb(last') /\ last'.user # None) <=> last'.resp = R_UNKNOWN]_vars

\* an AUTH with a wrong password was refused on a connection logged in as
\* alice, which stays logged in, while a file is stored
C14_Witness ==
    /\ IsCommand(last) /\ FailedAuth(last)
    /\ last.resp = R_INVALID_PASSWORD
    /\ last.user = alice
    /\ conn[last.c] = [state |-> "open", authenticated_user |-> alice]
    /\ DOMAIN fs.files # {}

\* an unknown verb in lower case was refused on an authenticated connection
C14_WitnessUnknown ==
    /\ IsCommand(last) /\ UnknownVerb(last) /\ last.user # None
    /\ Words(last)[1] # Upper(Words(last)[1])
    /\ last.resp = R_UNKNOWN

(***************************************************************************)
(* Claims about the server's threads and its shutdown                      *)
(***************************************************************************)
\* the event ends a storage command received on an authenticated connection
IsStorageCommand(e) ==
    /\ IsCommand(e)
    /\ e.user # None
    /\ Verb(e) \in StorageVerbs

\* C15: under any interleaving of the handler threads, two connections of
\* one user running _get_user_dir at the same time included, every UPLOAD,
\* DOWNLOAD, DELETE and LIST on an authenticated connection is answered
\* with an OK or an ERROR response and its connection stays open, and no
\* handler ends other than by its own client's disconnect
C15_HandlersIndependent ==
    [][/\ IsStorageCommand(last') =>
            /\ last'.kind = "command"
            /\ IsOk(last'.resp) \/ IsError(last'.resp)
            /\ conn'[last'.c].state = "open"
       /\ \A c \in Conns : (conn[c].state = "open" /\ conn'[c].state = "closed" /\ 0 \in live')
            => (last'.kind = "disconnect" /\ last'.c = c)]_vars

\* the step is the shutdown of the server
IsShutdown == 0 \in live /\ 0 \notin live'

\* C16: after the shutdown signal no connection is accepted, and the
\* shutdown leaves every handler in flight as it is: the connection stays
\* open and a command in progress goes on
C16_ShutdownKeepsHandlers ==
    [][/\ 0 \notin live => (\A c \in Conns : conn[c].state = "unused" => conn'[c].state = "unused")
       /\ IsShutdown => \A c \in Conns :
              conn[c].state = "open" => (conn'[c].state = "open" /\ thread'[c] = thread[c])]_vars

(***************************************************************************)
(* Claims about LIST, UPLOAD and DELETE                                    *)
(***************************************************************************)
\* the event is U's LIST
IsListOfWatched(e) == IsCommand(e) /\ e.user = watch[1] /\ e.data = ListCmd

\* the stored files without the one at (user, filename)
FilesWithout(f, user, filename) ==
    [p \in (DOMAIN f.files) \ {Cwd \o <<storage_dir, user, filename>>} |-> f.files[p]]

\* C17 as stated: U's LIST is answered "OK " and a JSON array of exactly
\* the filenames stored under U: it names F once while U's acknowledged
\* upload of F is current, does not name F after U's acknowledged delete
\* of F, is the empty array while no upload of U is acknowledged, and
\* the LIST changes no stored file
C17_ListExact ==
    [][IsListOfWatched(last') =>
          /\ IsOk(last'.resp)
          /\ hist.cur # None => Listed(last'.resp, watch[2]) = 1
          /\ hist.deleted => Listed(last'.resp, watch[2]) = 0
          /\ ~hist.uploaded => last'.resp = OK_SP \o json_dumps(<<>>)
          /\ fs'.files = fs.files]_vars

\* the event is an UPLOAD with filename and payload on an authenticated
\* connection
IsUpload(e) ==
    /\ IsCommand(e)
    /\ e.user # None
    /\ Verb(e) = V_UPLOAD
    /\ Len(Parsed(e.data).parts) = 3

\* the file path the UPLOAD of event e writes
UploadPath(e) == PathJoin(PathJoin(storage_dir, e.user), Parsed(e.data).parts[2])

\* C18: an UPLOAD whose payload does not decode is answered "ERROR Upload
\* failed: " and the reason, and leaves the storage as it was; the answer
\* "OK File uploaded" is given only to a payload that decodes, and then
\* the file at the user's directory and the filename holds the decoded
\* bytes
C18_UploadAllOrNothing ==
    [][IsUpload(last') =>
          /\ ~Decoded(Parsed(last'.data).parts[3]).ok
                => /\ last'.resp = R_UPLOAD_FAILED \o Decoded(Parsed(last'.data).parts[3]).err
                   /\ fs' = fs
          /\ last'.resp = R_UPLOADED
                => /\ Decoded(Parsed(last'.data).parts[3]).ok
                   /\ read_file(fs', UploadPath(last'))
                        = [err |-> NoError, content |-> Decoded(Parsed(last'.data).parts[3]).bytes]]_vars

\* an UPLOAD of f with an undecodable payload was refused while f is
\* stored for the user, which keeps its content
C18_Witness ==
    /\ IsUpload(last)
    /\ ~Decoded(Parsed(last.data).parts[3]).ok
    /\ StartsWith(last.resp, R_UPLOAD_FAILED)
    /\ FileAt(fs, last.user, Parsed(last.data).parts[2]) = {B1}

\* an UPLOAD was acknowledged and the file holds its bytes
C18_WitnessWritten ==
    /\ IsUpload(last)
    /\ last.resp = R_UPLOADED
    /\ FileAt(fs, last.user, Parsed(last.data).parts[2]) = {B1}

\* C19 as stated: U's DELETE F answered "OK File deleted" removes the file
\* stored at (U, F) and changes no other stored file; U's DELETE of an F
\* not stored under U is answered "ERROR File not found" and changes no
\* stored file
C19_DeleteFrame ==
    [][IsDeleteOfWatched(last') =>
          /\ last'.resp = R_DELETED
                => /\ FileAt(fs, watch[1], watch[2]) # {}
                   /\ fs'.files = FilesWithout(fs, watch[1], watch[2])
          /\ FileAt(fs, watch[1], watch[2]) = {}
                => /\ last'.resp = R_NOT_FOUND
                   /\ fs'.files = fs.files]_vars

(***************************************************************************)
(* Claims about the transport                                              *)
(***************************************************************************)
\* a step of the client's send loop that goes on in _send_command
ClientSends == call.pc = "send" /\ call' # call /\ call'.pc # "idle"

\* a step in which the handler of connection c answers what it received
ServerSends(c) ==
    /\ conn[c].state = "open"
    /\ net[c].toServer # <<>>
    /\ net'[c].toServer = <<>>
    /\ ~net[c].eof
    /\ last'.kind = "command"
    /\ last'.c = c
    /\ last'.resp # None

\* C20 as stated: every message handed to send is written to the stream in
\* full.  The client's loop writes the bytes of the command in order and
\* goes on to recv exactly when all of them are written; the server's
\* response is on the stream in full when the handler has sent it
C20_SendInFull ==
    [][/\ ClientSends =>
            /\ net'[session.peer].toServer
                 = net[session.peer].toServer
                   \o SubSeq(call.command, call.total_sent + 1, call'.total_sent)
            /\ call'.total_sent > call.total_sent
            /\ call'.pc = "recv" <=> call'.total_sent = Len(call.command)
       /\ \A c \in Conns : ServerSends(c) =>
            net'[c].toClient = net[c].toClient \o last'.resp]_vars

\* the client's half of C20 alone
C20_ClientSendsInFull ==
    [][ClientSends =>
            /\ net'[session.peer].toServer
                 = net[session.peer].toServer
                   \o SubSeq(call.command, call.total_sent + 1, call'.total_sent)
            /\ call'.total_sent > call.total_sent
            /\ call'.pc = "recv" <=> call'.total_sent = Len(call.command)]_vars

(***************************************************************************)
(* Claims about the exchange of commands and responses                     *)
(***************************************************************************)
\* the event is a message that handle_client received
IsReceived(e) == e.kind \in {"command", "died"}

\* C21 as stated: a received message that is not empty after stripping
\* whitespace gets one response and the handler goes on to read the next
\* message; one that is empty gets no response and the handler goes on
\* with the connection open, its user and the storage unchanged
C21_OneResponse ==
    [][IsReceived(last') =>
          IF Strip(last'.data) # <<>>
          THEN /\ last'.resp # None
               /\ conn'[last'.c].state = "open"
          ELSE /\ last'.resp = None
               /\ conn'[last'.c] = [state |-> "open", authenticated_user |-> last'.user]
               /\ fs' = fs]_vars

\* C21 for the messages that decode as UTF-8
C21_OneResponseToText ==
    [][(IsReceived(last') /\ DecodeOk(last'.data)) =>
          IF Strip(last'.data) # <<>>
          THEN /\ last'.kind = "command"
               /\ last'.resp # None
               /\ conn'[last'.c].state = "open"
          ELSE /\ last'.kind = "command"
               /\ last'.resp = None
               /\ conn'[last'.c] = [state |-> "open", authenticated_user |-> last'.user]
               /\ fs' = fs]_vars

\* a step in which _send_command returns a response that is not None
SendCommandReturns == call.pc = "recv" /\ call'.pc = "idle" /\ call'.response # None

\* C22 as stated: a response that _send_command returns for a command is
\* the one the server produced for that command: what the client takes
\* from the socket is the answer to the data that was this command, and
\* nothing else (no answer to an earlier command whose wait timed out)
C22_ResponsePairing ==
    [][SendCommandReturns =>
          net[session.peer].answers = << [data |-> call.command, resp |-> call'.response] >>]_vars

\* the second half of C22 alone: a response with bytes in it is the
\* answer to the command just sent
C22_NoStaleResponse ==
    [][(SendCommandReturns /\ call'.response # <<>>) =>
          net[session.peer].answers = << [data |-> call.command, resp |-> call'.response] >>]_vars

\* a step in which authenticate returns True
AuthenticateReturnsTrue ==
    call.op = "authenticate" /\ call.pc = "recv" /\ call'.pc = "idle" /\ IsOk(call'.response)

\* the commands of authenticate(u, p) for the users u of the server's
\* mapping with their secret p
ValidAuthCmds == {AuthCmd(u, users[u]) : u \in DOMAIN users}

\* C23 as stated: while the client's flag is true and it holds a connected
\* session, the server's authenticated user of that connection is the
\* username of the latest authenticate call that returned True; and
\* authenticate(u, p) returns True only for a user u of the server's
\* mapping with secret p
C23_IdentityAgreement ==
    /\ [](authenticated /\ session.fd = "connected"
            => conn[session.peer].authenticated_user = auth_user)
    /\ [][AuthenticateReturnsTrue => call.command \in ValidAuthCmds]_vars

\* the first half of C23 alone
C23_ServerHoldsUser ==
    authenticated /\ session.fd = "connected" => conn[session.peer].authenticated_user = auth_user

\* the second half of C23 alone
C23_TrueOnlyIfValid ==
    [][AuthenticateReturnsTrue => call.command \in ValidAuthCmds]_vars

\* C24 as stated: _send_command goes on to send only on a socket whose
\* connect succeeded, and when _connect_to_next_node returns False the
\* client has no session
C24_SessionIsConnected ==
    /\ [](call.pc = "send" => session.fd = "connected")
    /\ [][ConnectReturnsFalse => session' = NoSocket]_vars
====
